---- MODULE Spec2Model ----
(***************************************************************************)
(* Model of GeneralAgent's Agent (src/GeneralAgent/agent.py): the to-do    *)
(* loop of Agent.run, cancellation through Agent.stop, and one turn of     *)
(* Agent._execute_node (token streaming, output interpreter dispatch,      *)
(* commit of the answer node, recovery on exception).                      *)
(*                                                                         *)
(* Text is a sequence of characters, so that `result += token` is a real   *)
(* concatenation.  The Memory tree, the interpreters and llm_inference are *)
(* collaborators whose code is outside agent.py; Memory follows the        *)
(* contract of the specification, interpreters and the LLM are opaque and  *)
(* answer nondeterministically.                                            *)
(*                                                                         *)
(* Model of SummaryMemory (src/GeneralAgent/memory/summary_memory.py): the *)
(* concept store and its TinyDB table, the show, hide and block parsing of *)
(* the LLM output, and the request loop of add_content.  Specification     *)
(* Spec runs the agent, specification SpecSM runs the summary memory.      *)
(***************************************************************************)
EXTENDS Integers, Sequences, FiniteSets, TLC

\* ---------------------------------------------------------------- bounds
MaxNodes == 3
MaxTokens == 2
MaxPlanSteps == 2
MaxSMTokens == 2
MaxAdds == 2

\* ------------------------------------------------------------- constants
\* Python's None, as a run result or a node reference (node ids start at 1).
None == 0

Ids == 1..MaxNodes

\* Agent.output_interpreters, in list order (agent.py line 44).
output_interpreters == <<"python", "bash", "applescript", "file", "ask">>

\* The pattern of each output interpreter: a regular expression searched in
\* the whole accumulated buffer with re.DOTALL.  Modelled as the characters
\* that must occur in this order ("P.*E" is an opened and closed fence).
match_template(i) ==
    CASE i = "python"      -> <<"P", "E">>
      [] i = "bash"        -> <<"B", "E">>
      [] i = "applescript" -> <<"A", "E">>
      [] i = "file"        -> <<"F">>
      [] i = "ask"         -> <<"K">>

\* The pattern of the plan interpreter, the only input interpreter.
plan_match_template == <<"1">>

\* Tokens the LLM stream may yield (each a piece of text): one that opens
\* the python and the bash fence at once, one that closes a fence (plain text
\* while no fence is open), and the marker of the ask interpreter.
Tokens == { <<"B", "P">>, <<"E">>, <<"K">> }

\* Texts an interpreter's parse may return as its output.
Outputs == { <<"o">>, <<"B", "P">> }

\* Contents of the input handed to run.
Inputs == { <<"q">>, <<"1">> }

VARIABLES
    nodes,        \* Memory: node id -> [role, action, content, status]
    order,        \* Memory: the node ids in traversal order
    current_node, \* Memory: the cursor
    nextId,       \* Memory: next node id to assign
    is_running,   \* Agent.is_running
    stop_event,   \* Agent.stop_event
    pc,           \* position of the run coroutine
    todo_node,    \* run: todo_node
    new_node,     \* run: new_node, as returned by _execute_node
    node,         \* _execute_node: node
    answer_node,  \* _execute_node: answer_node
    result,       \* _execute_node: result
    is_stop,      \* _execute_node / run: is_stop
    outcome,      \* how the last call of run ended: "none", "returned", "raised"
    ret,          \* value the last call of run returned
    calls,        \* history: calls of output_recall in the current turn
    stream,       \* history: tokens pulled from the LLM stream in the current turn
    parsed,       \* history: parse invocations of the current turn
    turn,         \* history: facts about the current turn
    runh,         \* history: facts about the current run
    concepts,     \* SummaryMemory.concepts: the concepts in insertion order
    db,           \* SummaryMemory.db: the documents of the durable store
    apc,          \* position of the add_content coroutine
    aresult,      \* add_content: result
    aret,         \* value the last call of add_content returned
    ah            \* history: facts about the current call of add_content

\* The variables of the agent and those of the summary memory.
agentvars == << nodes, order, current_node, nextId, is_running, stop_event, pc,
                todo_node, new_node, node, answer_node, result, is_stop,
                outcome, ret, calls, stream, parsed, turn, runh >>
smvars == << concepts, db, apc, aresult, aret, ah >>

vars == << agentvars, smvars >>

memvars == << nodes, order, current_node, nextId >>
framevars == << node, answer_node, result, is_stop >>

\* ------------------------------------------------------- pure functions
\* re.compile(pattern, re.DOTALL).search(text) is not None, for a pattern
\* c1.*c2...: the characters of pat occur in text in this order.
RECURSIVE Search(_, _)
Search(pat, text) ==
    IF pat = <<>> THEN TRUE
    ELSE IF text = <<>> THEN FALSE
    ELSE IF Head(text) = Head(pat) THEN Search(Tail(pat), Tail(text))
    ELSE Search(pat, Tail(text))

\* The interpreters whose pattern matches the buffer, as indexes in the list.
Matching(buf) ==
    { k \in 1..Len(output_interpreters) :
        Search(match_template(output_interpreters[k]), buf) }

\* FirstMatch taking the last matching interpreter of the list.
FirstMatch_Last(buf) ==
    IF Matching(buf) = {} THEN 0
    ELSE CHOOSE k \in Matching(buf) : \A j \in Matching(buf) : k >= j

\* The for/break over output_interpreters: the first one that matches, or 0.
FirstMatch(buf) ==
    IF Matching(buf) = {} THEN 0
    ELSE CHOOSE k \in Matching(buf) : \A j \in Matching(buf) : k <= j

\* '\n' + output + '\n'
Framed(output) == <<"\n">> \o output \o <<"\n">>

\* f'\n[{node.content}]\n'
Banner(content) == <<"\n", "[">> \o content \o <<"]", "\n">>

\* The concatenation of a sequence of texts.
RECURSIVE Concat(_)
Concat(ts) == IF ts = << >> THEN << >> ELSE Head(ts) \o Concat(Tail(ts))

\* ------------------------------------------------------------- Memory
MemoryNode(role, action, content) ==
    [role |-> role, action |-> action, content |-> content, status |-> "pending"]

RECURSIVE IndexOf(_, _)
IndexOf(s, x) == IF s = <<>> THEN 0
                 ELSE IF Head(s) = x THEN 1
                 ELSE IF IndexOf(Tail(s), x) = 0 THEN 0 ELSE 1 + IndexOf(Tail(s), x)

InsertAfter(s, ref, x) ==
    LET k == IndexOf(s, ref)
    IN  IF k = 0 THEN Append(s, x)
        ELSE SubSeq(s, 1, k) \o <<x>> \o SubSeq(s, k + 1, Len(s))

Remove(s, x) == SelectSeq(s, LAMBDA y : y # x)

\* Memory.get_todo_node on the memory (ns, ord): the first pending node in
\* traversal order, or None.
get_todo_node(ns, ord) ==
    LET P == { k \in 1..Len(ord) : ns[ord[k]].status = "pending" }
    IN  IF P = {} THEN None
        ELSE ord[CHOOSE k \in P : \A j \in P : k <= j]

\* Memory.success_node
success_node(ns, id) == [ns EXCEPT ![id].status = "success"]

\* Memory.delete_node
delete_node(ns, id) == [k \in (DOMAIN ns) \ {id} |-> ns[k]]

\* Memory.add_node / add_node_after on the node map
add_node(ns, id, n) == [k \in (DOMAIN ns) \cup {id} |-> IF k = id THEN n ELSE ns[k]]

\* ------------------------------------------------------ SummaryMemory
\* (src/GeneralAgent/memory/summary_memory.py)  Text is a sequence of
\* characters over a small alphabet in which one character stands for each of
\* the strings the code looks for: "F" is the fence ```, "S" is show, "H" is
\* hide, "N" is the newline, "L" is << and "R" is >>; "a" and "ROOT" are the
\* words titles and keys are made of.

RootKey == << "ROOT" >>

\* A local variable of the code: F applied to the value of v, which is
\* computed once.
With(v, F(_)) == CHOOSE r \in { F(x) : x \in { v } } : TRUE

\* str.strip(): only the newline is whitespace in the alphabet.
RECURSIVE FirstText(_, _)
FirstText(s, i) == IF i > Len(s) \/ s[i] # "N" THEN i ELSE FirstText(s, i + 1)

RECURSIVE LastText(_, _)
LastText(s, i) == IF i < 1 \/ s[i] # "N" THEN i ELSE LastText(s, i - 1)

Strip(s) == SubSeq(s, FirstText(s, 1), LastText(s, Len(s)))

\* str.split('\n'): the pieces between the newlines ('' gives ['']).
RECURSIVE SplitFrom(_, _, _)
SplitFrom(s, from, i) ==
    IF i > Len(s) THEN << SubSeq(s, from, Len(s)) >>
    ELSE IF s[i] = "N"
         THEN << SubSeq(s, from, i - 1) >> \o SplitFrom(s, i + 1, i + 1)
         ELSE SplitFrom(s, from, i + 1)

Split(s) == SplitFrom(s, 1, 1)

\* str.join of the texts ts with the separator sep.
RECURSIVE JoinFrom(_, _, _)
JoinFrom(sep, ts, k) ==
    IF k > Len(ts) THEN << >>
    ELSE IF k = Len(ts) THEN ts[k]
    ELSE ts[k] \o sep \o JoinFrom(sep, ts, k + 1)

Join(sep, ts) == JoinFrom(sep, ts, 1)

\* line.startswith('<<') and line.endswith('>>')
IsTitle(line) == line # << >> /\ Head(line) = "L" /\ line[Len(line)] = "R"

\* line[2:-2]
TitleKey(line) == SubSeq(line, 2, Len(line) - 1)

\* The key a line of a show or hide directive names.
LineKey(line) ==
    With(Strip(line), LAMBDA l : IF IsTitle(l) THEN TitleKey(l) ELSE l)

\* The match of "```(\n)?word\n(.*?)\n```" (re.DOTALL) that starts at position
\* i of s, with word "S" or "H": [from, to, g2] or, when there is none, to = 0.
NoMatch == [from |-> 0, to |-> 0, g2 |-> << >>]

\* Where the word stands when the fence is at i: after the optional newline.
WordAt(s, i) == IF i + 1 <= Len(s) /\ s[i + 1] = "N" THEN i + 2 ELSE i + 1

\* The first "\n```" at or after position e, or 0.
RECURSIVE FirstClose(_, _)
FirstClose(s, e) ==
    IF e >= Len(s) THEN 0
    ELSE IF s[e] = "N" /\ s[e + 1] = "F" THEN e
    ELSE FirstClose(s, e + 1)

MatchAt(s, i, word) ==
    IF i <= Len(s) /\ s[i] = "F"
    THEN With(WordAt(s, i), LAMBDA h :
           IF h + 1 <= Len(s) /\ s[h] = word /\ s[h + 1] = "N"
           THEN With(FirstClose(s, h + 2), LAMBDA e :
                  IF e # 0
                  THEN [from |-> i, to |-> e + 1, g2 |-> SubSeq(s, h + 2, e - 1)]
                  ELSE NoMatch)
           ELSE NoMatch)
    ELSE NoMatch

\* re.search from position p on: the leftmost match.
RECURSIVE SearchFrom(_, _, _)
SearchFrom(s, p, word) ==
    IF p > Len(s) THEN NoMatch
    ELSE With(MatchAt(s, p, word), LAMBDA m :
           IF m.to # 0 THEN m ELSE SearchFrom(s, p + 1, word))

\* re.finditer: the successive non-overlapping matches.
RECURSIVE FindAllFrom(_, _, _)
FindAllFrom(s, p, word) ==
    With(SearchFrom(s, p, word), LAMBDA m :
      IF m.to = 0 THEN << >>
      ELSE << m >> \o FindAllFrom(s, m.to + 1, word))

\* str.replace(old, new): every non-overlapping occurrence, left to right.
RECURSIVE ReplaceFrom(_, _, _, _)
ReplaceFrom(s, i, old, new) ==
    IF i + Len(old) - 1 > Len(s) \/ old = << >> THEN SubSeq(s, i, Len(s))
    ELSE IF SubSeq(s, i, i + Len(old) - 1) = old
         THEN new \o ReplaceFrom(s, i + Len(old), old, new)
         ELSE << s[i] >> \o ReplaceFrom(s, i + 1, old, new)

Replace(s, old, new) == ReplaceFrom(s, 1, old, new)

\* The keys the lines of a directive body name.
DirectiveKeys(g2) ==
    With(Split(Strip(g2)), LAMBDA lines :
      [k \in 1..Len(lines) |-> LineKey(lines[k])])

\* SummaryMemory.get_show_keys: the keys of the first show directive.
get_show_keys(content) ==
    With(SearchFrom(content, 1, "S"), LAMBDA m :
      IF m.to = 0 THEN << >> ELSE DirectiveKeys(m.g2))

\* SummaryMemory.get_hide_keys: the keys of all hide directives.
get_hide_keys(content) ==
    With(Strip(content), LAMBDA s :
      With(FindAllFrom(s, 1, "H"), LAMBDA ms :
        Concat([k \in 1..Len(ms) |-> DirectiveKeys(ms[k].g2)])))

\* SummaryMemoryNode and its __str__
SummaryMemoryNode(key, content, show) ==
    [key |-> key, content |-> content, show |-> show]

NodeStr(n) == << "L" >> \o n.key \o << "R", "N" >> \o n.content

\* The position of key in the concept sequence cs, or 0.
RECURSIVE KeyIndexFrom(_, _, _)
KeyIndexFrom(cs, key, k) ==
    IF k > Len(cs) THEN 0
    ELSE IF cs[k].key = key THEN k
    ELSE KeyIndexFrom(cs, key, k + 1)

KeyIndex(cs, key) == KeyIndexFrom(cs, key, 1)

HasKey(cs, key) == KeyIndex(cs, key) # 0

\* nodes[key] = nodes.get(key, '') + value
Put(acc, key, value) ==
    With(KeyIndex(acc, key), LAMBDA i :
      IF i = 0 THEN Append(acc, [key |-> key, content |-> value])
      ELSE [acc EXCEPT ![i].content = @ \o value])

\* SummaryMemory.get_nodes: the titled blocks of a text, as a sequence of
\* [key, content] in the order the dict receives its keys.
RECURSIVE GetNodesLoop(_, _, _, _, _, _)
GetNodesLoop(lines, k, hasKey, key, value, acc) ==
    IF k > Len(lines)
    THEN IF hasKey THEN Put(acc, key, value) ELSE acc
    ELSE With(Strip(lines[k]), LAMBDA line :
           IF line = << >>
           THEN GetNodesLoop(lines, k + 1, hasKey, key, value, acc)
           ELSE IF IsTitle(line)
           THEN IF hasKey
                THEN With(Put(acc, key, value), LAMBDA acc2 :
                       GetNodesLoop(lines, k + 1, TRUE, TitleKey(line), << >>, acc2))
                ELSE GetNodesLoop(lines, k + 1, TRUE, TitleKey(line), value, acc)
           ELSE With(value \o line \o << "N" >>, LAMBDA value2 :
                  GetNodesLoop(lines, k + 1, hasKey, key, value2, acc)))

get_nodes(content) ==
    With(Split(Strip(content)), LAMBDA lines :
      With(GetNodesLoop(lines, 1, FALSE, << >>, << >>, << >>), LAMBDA raw :
        [k \in 1..Len(raw) |->
            [key |-> raw[k].key, content |-> Strip(raw[k].content)]]))

\* Whether the text sub occurs in the text s (Python's "sub in s").
Contains(s, sub) ==
    \E i \in 1..(Len(s) - Len(sub) + 1) : SubSeq(s, i, i + Len(sub) - 1) = sub

\* The concept store is the dict self.concepts, a sequence of nodes in
\* insertion order, and the TinyDB table self.db, a sequence of documents.
\* A store is the pair [c |-> concepts, d |-> db].

\* db.insert(document)
Insert(d, doc) == Append(d, doc)

\* db.upsert(document, Query().key == key): update every document with the
\* key, insert when there is none.
Upsert(d, doc) ==
    IF \E k \in 1..Len(d) : d[k].key = doc.key
    THEN [k \in 1..Len(d) |-> IF d[k].key = doc.key THEN doc ELSE d[k]]
    ELSE Append(d, doc)

\* The store of a new SummaryMemory over an empty database (__init__).
NewStore ==
    With(SummaryMemoryNode(RootKey, << >>, FALSE), LAMBDA root :
      [c |-> << root >>, d |-> Insert(<< >>, root)])

ShownNodes_All(c) == SelectSeq(c, LAMBDA n : Len(Strip(n.content)) > 0)

\* The nodes get_show_memory renders (the comprehension of line 89).
ShownNodes(c) == SelectSeq(c, LAMBDA n : n.show /\ Len(Strip(n.content)) > 0)

\* SummaryMemory.get_show_memory
get_show_memory(c) ==
    With(ShownNodes(c), LAMBDA shown :
      Strip(Join(<< "N", "N" >>, [k \in 1..Len(shown) |-> NodeStr(shown[k])])))

RECURSIVE ShowKeysNoUpsert(_, _)
ShowKeysNoUpsert(st, keys) ==
    IF keys = << >> THEN st
    ELSE With(KeyIndex(st.c, Head(keys)), LAMBDA i :
           IF i # 0
           THEN With([st EXCEPT !.c[i].show = TRUE], LAMBDA st2 :
                  ShowKeysNoUpsert(st2, Tail(keys)))
           ELSE ShowKeysNoUpsert(st, Tail(keys)))

\* The loop of _parse_show over the keys (lines 163-166).
RECURSIVE ShowKeys(_, _)
ShowKeys(st, keys) ==
    IF keys = << >> THEN st
    ELSE With(KeyIndex(st.c, Head(keys)), LAMBDA i :
           IF i # 0
           THEN With([st.c EXCEPT ![i].show = TRUE], LAMBDA c2 :
                  With([c |-> c2, d |-> Upsert(st.d, c2[i])], LAMBDA st2 :
                    ShowKeys(st2, Tail(keys))))
           ELSE ShowKeys(st, Tail(keys)))

\* '\n\n'.join([str(self.concepts[key]) for key in keys if key in self.concepts])
Rendered(c, keys) ==
    With(SelectSeq(keys, LAMBDA k : HasKey(c, k)), LAMBDA known :
      Join(<< "N", "N" >>,
           [k \in 1..Len(known) |-> NodeStr(c[KeyIndex(c, known[k])])]))

\* SummaryMemory._parse_show: [parsed, content, st]
_parse_show(st, content) ==
    With(get_show_keys(content), LAMBDA keys :
      IF Len(keys) = 0
      THEN [parsed |-> FALSE, content |-> content, st |-> st]
      ELSE With(ShowKeys(st, keys), LAMBDA st2 :
           With(Rendered(st2.c, keys), LAMBDA replaced_value :
           With(SearchFrom(content, 1, "S"), LAMBDA show_match :
           With(SubSeq(content, show_match.from, show_match.to), LAMBDA group0 :
             [parsed |-> TRUE,
              content |-> Replace(content, group0, replaced_value),
              st |-> st2])))))

RECURSIVE HideKeysNoCreate(_, _)
HideKeysNoCreate(st, keys) ==
    IF keys = << >> THEN st
    ELSE With(KeyIndex(st.c, Head(keys)), LAMBDA i :
           IF i # 0
           THEN With([st.c EXCEPT ![i].show = FALSE], LAMBDA c2 :
                  With([c |-> c2, d |-> Upsert(st.d, c2[i])], LAMBDA st2 :
                    HideKeysNoCreate(st2, Tail(keys))))
           ELSE HideKeysNoCreate(st, Tail(keys)))

\* The loop of _parse_hide over the keys (lines 147-153).
RECURSIVE HideKeys(_, _)
HideKeys(st, keys) ==
    IF keys = << >> THEN st
    ELSE With(KeyIndex(st.c, Head(keys)), LAMBDA i :
           IF i # 0
           THEN With([st.c EXCEPT ![i].show = FALSE], LAMBDA c2 :
                  With([c |-> c2, d |-> Upsert(st.d, c2[i])], LAMBDA st2 :
                    HideKeys(st2, Tail(keys))))
           ELSE With(SummaryMemoryNode(Head(keys), << >>, FALSE), LAMBDA n :
                  With([c |-> Append(st.c, n), d |-> Insert(st.d, n)], LAMBDA st2 :
                    HideKeys(st2, Tail(keys)))))

\* The removal of the hide directives from the text (lines 154-156).
RECURSIVE RemoveAll(_, _, _)
RemoveAll(content, olds, k) ==
    IF k > Len(olds) THEN content
    ELSE With(Replace(content, olds[k], << >>), LAMBDA content2 :
           RemoveAll(content2, olds, k + 1))

\* SummaryMemory._parse_hide: [parsed, content, st]
_parse_hide(st, content) ==
    With(get_hide_keys(content), LAMBDA keys :
      IF Len(keys) = 0
      THEN [parsed |-> FALSE, content |-> content, st |-> st]
      ELSE With(FindAllFrom(content, 1, "H"), LAMBDA ms :
           With([k \in 1..Len(ms) |-> SubSeq(content, ms[k].from, ms[k].to)],
                LAMBDA olds :
             [parsed |-> TRUE,
              content |-> RemoveAll(content, olds, 1),
              st |-> HideKeys(st, keys)])))

\* The loop of _parse_block over the titled blocks (lines 135-140).
RECURSIVE BlockNodes(_, _, _)
BlockNodes(st, ns, k) ==
    IF k > Len(ns) THEN st
    ELSE With(KeyIndex(st.c, ns[k].key), LAMBDA i :
         With(IF i # 0
              THEN [st.c EXCEPT ![i].content = ns[k].content]
              ELSE Append(st.c, SummaryMemoryNode(ns[k].key, ns[k].content, FALSE)),
              LAMBDA c2 :
         With([c |-> c2, d |-> Upsert(st.d, c2[KeyIndex(c2, ns[k].key)])],
              LAMBDA st2 :
           BlockNodes(st2, ns, k + 1))))

\* SummaryMemory._parse_block: [parsed, content, st]
_parse_block(st, content) ==
    With(get_nodes(content), LAMBDA ns :
      [parsed |-> TRUE, content |-> content, st |-> BlockNodes(st, ns, 1)])

\* SummaryMemory.instant_parse
instant_parse(st, content) == _parse_show(st, content)

\* SummaryMemory.post_parse
post_parse(st, content) ==
    With(_parse_hide(st, content), LAMBDA h :
      With(_parse_block(h.st, h.content), LAMBDA b :
        [parsed |-> b.parsed \/ h.parsed, content |-> b.content, st |-> b.st]))

\* The tokens the LLM may stream to add_content, the texts a caller may hand to
\* the parsing steps, and the arguments of add_content.
SMTokens == { << "L", "a", "R", "N", "x", "N" >>,
              << "F", "S", "N", "L", "a", "R" >>,
              << "N", "F" >>,
              << "F", "H", "N", "L", "a", "R", "N", "F" >> }

SMTexts == { << "F", "S", "N", "L", "a", "R", "N", "F" >>,
             << "F", "S", "N", "ROOT", "N", "F" >>,
             << "F", "H", "N", "L", "a", "R", "N", "F" >>,
             << "L", "a", "R", "N", "x" >>,
             << "x", "N", "L", "ROOT", "R", "N", "x" >> }

SMInputs == { << "u" >>, << "x" >> }

Roles == { "user", "system", "assistant" }

\* What is known of the last operation on the summary memory: the counters of
\* the running add_content call, and of the last parsing step the keys it
\* named, those of them the store did not hold, and the concepts it hid.
SMNoHist == [adds |-> 0, input |-> << >>, new_text |-> << >>,
             requests |-> 0, matches |-> 0, ntok |-> 0,
             op |-> "none", keys |-> << >>, unknown |-> {},
             hid |-> {}, reshown |-> {}]

SMNoRet == [kind |-> "none", text |-> << >>]

\* --------------------------------------------------------------- history
NoTurn == [active |-> FALSE, failed |-> FALSE, ended |-> FALSE,
           atmatch |-> 0, streamEnded |-> FALSE,
           parseRet |-> FALSE, parseOut |-> <<>>, parseDone |-> FALSE,
           committed |-> FALSE]

NoRun == [turns |-> 0, stopAtCall |-> FALSE, stopCalled |-> FALSE,
          doneAfterStop |-> 0, everStopped |-> FALSE]

Call(line, isNone, text) == [line |-> line, none |-> isNone, text |-> text]

Init ==
    /\ nodes = << >>
    /\ order = << >>
    /\ current_node = None
    /\ nextId = 1
    /\ is_running = FALSE
    /\ stop_event = FALSE
    /\ pc = "idle"
    /\ todo_node = None
    /\ new_node = None
    /\ node = None
    /\ answer_node = None
    /\ result = << >>
    /\ is_stop = FALSE
    /\ outcome = "none"
    /\ ret = None
    /\ calls = << >>
    /\ stream = << >>
    /\ parsed = << >>
    /\ turn = NoTurn
    /\ runh = NoRun
    /\ concepts = NewStore.c
    /\ db = NewStore.d
    /\ apc = "idle"
    /\ aresult = << >>
    /\ aret = SMNoRet
    /\ ah = SMNoHist

\* ------------------------------------------------------------ actions
\* The run coroutine ends by returning v.
Return(v) ==
    /\ pc' = "idle"
    /\ outcome' = "returned"
    /\ ret' = v

\* An exception leaves run: the call ends without a result.
Propagate ==
    /\ pc' = "idle"
    /\ outcome' = "raised"
    /\ ret' = None

\* One call of output_recall from source line `line`; the callback (or a task
\* that runs while it is awaited) calls agent.stop() when stops.
Recall(line, isNone, text, stops) ==
    /\ calls' = Append(calls, Call(line, isNone, text))
    /\ stop_event' = (stop_event \/ stops)
    /\ runh' = [runh EXCEPT !.stopCalled = @ \/ stops,
                            !.everStopped = @ \/ stops]

\* PlanInterpreter.parse: the steps of the plan become pending plan nodes
\* right after the expanded node, which is marked success.
PlanParse(ns, ord, id, first, k) ==
    LET steps == [j \in 1..k |-> first + j - 1]
        ns2 == [m \in (DOMAIN ns) \cup { steps[j] : j \in 1..k } |->
                  IF m \in DOMAIN ns THEN ns[m]
                  ELSE MemoryNode("system", "plan", <<"s">>)]
        at == IndexOf(ord, id)
    IN  [nodes |-> success_node(ns2, id),
         order |-> SubSeq(ord, 1, at) \o steps \o SubSeq(ord, at + 1, Len(ord))]

\* Agent._insert_node
InsertNode(ns, ord, id, input, for_node_id) ==
    LET n == MemoryNode("user", "input", input)
    IN  IF for_node_id = None
        THEN [nodes |-> add_node(ns, id, n), order |-> Append(ord, id)]
        ELSE [nodes |-> success_node(add_node(ns, id, n), for_node_id),
              order |-> InsertAfter(ord, for_node_id, id)]

\* Run clearing the stop event when it starts.
Run_ClearStop(hasInput, input, for_node_id, k) ==
    /\ pc = "idle"
    /\ LET m0 == [nodes |-> nodes, order |-> order]
           m1 == IF hasInput
                 THEN InsertNode(nodes, order, nextId, input, for_node_id)
                 ELSE m0
           isPlan == hasInput /\ Search(plan_match_template, input)
           m2 == IF isPlan
                 THEN PlanParse(m1.nodes, m1.order, nextId, nextId + 1, k)
                 ELSE m1
           input_node == IF hasInput THEN nextId ELSE None
           todo == IF get_todo_node(m2.nodes, m2.order) # None
                   THEN get_todo_node(m2.nodes, m2.order)
                   ELSE input_node
           used == (IF hasInput THEN 1 ELSE 0) + (IF isPlan THEN k ELSE 0)
       IN  /\ nextId + used <= MaxNodes + 1
           /\ (~isPlan) => k = 1
           /\ (~hasInput) => (input = <<"q">> /\ for_node_id = None)
           /\ for_node_id # None => for_node_id \in DOMAIN nodes
           /\ nodes' = m2.nodes
           /\ order' = m2.order
           /\ nextId' = nextId + used
           /\ current_node' = IF hasInput THEN input_node ELSE current_node
           /\ todo_node' = todo
           /\ runh' = [NoRun EXCEPT !.stopAtCall = stop_event,
                                    !.stopCalled = stop_event,
                                    !.everStopped = runh.everStopped]
           /\ IF todo = None
              THEN /\ Return(None)
                   /\ is_running' = FALSE
              ELSE /\ pc' = "exec"
                   /\ is_running' = TRUE
                   /\ outcome' = "none"
                   /\ ret' = None
    /\ turn' = NoTurn
    /\ calls' = << >>
    /\ stream' = << >>
    /\ parsed' = << >>
    /\ stop_event' = FALSE
    /\ UNCHANGED << new_node, framevars >>

\* Agent.run, lines 46-63: up to the first test of the while loop.
Run(hasInput, input, for_node_id, k) ==
    /\ pc = "idle"
    /\ LET m0 == [nodes |-> nodes, order |-> order]
           m1 == IF hasInput
                 THEN InsertNode(nodes, order, nextId, input, for_node_id)
                 ELSE m0
           isPlan == hasInput /\ Search(plan_match_template, input)
           m2 == IF isPlan
                 THEN PlanParse(m1.nodes, m1.order, nextId, nextId + 1, k)
                 ELSE m1
           input_node == IF hasInput THEN nextId ELSE None
           todo == IF get_todo_node(m2.nodes, m2.order) # None
                   THEN get_todo_node(m2.nodes, m2.order)
                   ELSE input_node
           used == (IF hasInput THEN 1 ELSE 0) + (IF isPlan THEN k ELSE 0)
       IN  /\ nextId + used <= MaxNodes + 1
           /\ (~isPlan) => k = 1
           /\ (~hasInput) => (input = <<"q">> /\ for_node_id = None)
           /\ for_node_id # None => for_node_id \in DOMAIN nodes
           /\ nodes' = m2.nodes
           /\ order' = m2.order
           /\ nextId' = nextId + used
           /\ current_node' = IF hasInput THEN input_node ELSE current_node
           /\ todo_node' = todo
           /\ runh' = [NoRun EXCEPT !.stopAtCall = stop_event,
                                    !.stopCalled = stop_event,
                                    !.everStopped = runh.everStopped]
           /\ IF todo = None
              THEN /\ Return(None)
                   /\ is_running' = FALSE
              ELSE /\ pc' = "exec"
                   /\ is_running' = TRUE
                   /\ outcome' = "none"
                   /\ ret' = None
    /\ turn' = NoTurn
    /\ calls' = << >>
    /\ stream' = << >>
    /\ parsed' = << >>
    /\ UNCHANGED << stop_event, new_node, framevars >>

\* Agent._execute_node, lines 91-116: the answer node is added after the
\* to-do node and a plan node announces itself through the callback, outside
\* the try block.
ExecBegin(raises, stops) ==
    /\ pc = "exec"
    /\ nextId <= MaxNodes
    /\ LET isPlan == nodes[todo_node].action = "plan"
       IN  /\ node' = todo_node
           /\ answer_node' = nextId
           /\ nodes' = add_node(nodes, nextId, MemoryNode("system", "answer", << >>))
           /\ order' = InsertAfter(order, todo_node, nextId)
           /\ current_node' = nextId
           /\ nextId' = nextId + 1
           /\ result' = << >>
           /\ is_stop' = FALSE
           /\ stream' = << >>
           /\ parsed' = << >>
           /\ IF isPlan
              THEN /\ calls' = << Call(116, FALSE, Banner(nodes[todo_node].content)) >>
                   /\ stop_event' = (stop_event \/ stops)
              ELSE /\ calls' = << >>
                   /\ stop_event' = stop_event
                   /\ ~raises /\ ~stops
           /\ runh' = [runh EXCEPT !.turns = @ + 1,
                                   !.stopCalled = @ \/ (isPlan /\ stops),
                                   !.everStopped = @ \/ (isPlan /\ stops)]
           /\ IF isPlan /\ raises
              THEN /\ Propagate
                   /\ turn' = [NoTurn EXCEPT !.active = TRUE, !.ended = TRUE]
              ELSE /\ pc' = "stream"
                   /\ turn' = [NoTurn EXCEPT !.active = TRUE]
                   /\ UNCHANGED << outcome, ret >>
    /\ UNCHANGED << is_running, todo_node, new_node >>

\* Lines 124-128: the next item of the LLM stream.  what is "token" (a token
\* t is yielded, appended to result and handed to the callback), "none" (the
\* end-of-stream sentinel), "exhausted" (the generator ends) or "error"
\* (llm_inference or the generator raises).
PullToken(what, t, raises, stops) ==
    /\ pc = "stream"
    /\ what \in {"token", "none", "exhausted", "error"}
    /\ what = "token" => Len(stream) < MaxTokens
    /\ what # "token" => (t = <<"E">> /\ ~raises /\ ~stops)
    /\ IF what = "token"
       THEN /\ stream' = Append(stream, t)
            /\ result' = result \o t
            /\ Recall(128, FALSE, t, stops)
            /\ pc' = IF raises THEN "handler" ELSE "match"
            /\ turn' = [turn EXCEPT !.failed = raises]
       ELSE /\ pc' = IF what = "error" THEN "handler" ELSE "finish"
            /\ turn' = [turn EXCEPT !.failed = (what = "error"),
                                    !.streamEnded = (what # "error")]
            /\ UNCHANGED << stream, result, calls, stop_event, runh >>
    /\ UNCHANGED << memvars, is_running, todo_node, new_node, node, answer_node,
                    is_stop, outcome, ret, parsed >>

\* Lines 129-138: the output interpreters are tried in list order on the
\* accumulated result; the first whose pattern matches parses it.  parse
\* returns (output, stop) or raises (perr); its output goes to the callback.
Dispatch(perr, output, stop, raises, stops) ==
    /\ pc = "match"
    /\ LET k == FirstMatch(result)
       IN  IF k = 0
           THEN /\ pc' = "stream"
                /\ ~perr /\ ~stop /\ ~raises /\ ~stops /\ output = <<"o">>
                /\ UNCHANGED << is_stop, calls, stop_event, runh, parsed, turn >>
           ELSE /\ parsed' = Append(parsed, output_interpreters[k])
                /\ IF perr
                   THEN /\ ~stop /\ ~raises /\ ~stops /\ output = <<"o">>
                        /\ pc' = "handler"
                        /\ turn' = [turn EXCEPT !.failed = TRUE,
                                                !.atmatch = Len(stream)]
                        /\ UNCHANGED << is_stop, calls, stop_event, runh >>
                   ELSE /\ is_stop' = stop
                        /\ Recall(134, FALSE, Framed(output), stops)
                        /\ pc' = IF raises THEN "handler" ELSE "finish"
                        /\ turn' = [turn EXCEPT !.failed = raises,
                                                !.atmatch = Len(stream),
                                                !.parseDone = TRUE,
                                                !.parseRet = stop,
                                                !.parseOut = output]
    /\ UNCHANGED << memvars, is_running, todo_node, new_node, node, answer_node,
                    result, outcome, ret, stream >>

\* Finish sending the accumulated result where the sentinel is due.
Finish_NoSentinel(raises, stops) ==
    /\ pc = "finish"
    /\ Recall(139, FALSE, result, stops)
    /\ IF raises
       THEN /\ pc' = "handler"
            /\ turn' = [turn EXCEPT !.failed = TRUE]
            /\ UNCHANGED << nodes, new_node >>
       ELSE /\ nodes' = success_node(success_node(
                           [nodes EXCEPT ![answer_node].content = result],
                           node), answer_node)
            /\ new_node' = answer_node
            /\ pc' = "after"
            /\ turn' = [turn EXCEPT !.ended = TRUE, !.committed = TRUE]
    /\ UNCHANGED << order, current_node, nextId, is_running, todo_node, framevars,
                    outcome, ret, stream, parsed >>

\* Finish marking only the answer node success.
Finish_AnswerOnly(raises, stops) ==
    /\ pc = "finish"
    /\ Recall(139, TRUE, << >>, stops)
    /\ IF raises
       THEN /\ pc' = "handler"
            /\ turn' = [turn EXCEPT !.failed = TRUE]
            /\ UNCHANGED << nodes, new_node >>
       ELSE /\ nodes' = success_node(
                           [nodes EXCEPT ![answer_node].content = result],
                           answer_node)
            /\ new_node' = answer_node
            /\ pc' = "after"
            /\ turn' = [turn EXCEPT !.ended = TRUE, !.committed = TRUE]
    /\ UNCHANGED << order, current_node, nextId, is_running, todo_node, framevars,
                    outcome, ret, stream, parsed >>

\* Finish leaving the content of the answer node as it was created.
Finish_NoContent(raises, stops) ==
    /\ pc = "finish"
    /\ Recall(139, TRUE, << >>, stops)
    /\ IF raises
       THEN /\ pc' = "handler"
            /\ turn' = [turn EXCEPT !.failed = TRUE]
            /\ UNCHANGED << nodes, new_node >>
       ELSE /\ nodes' = success_node(success_node(nodes, node), answer_node)
            /\ new_node' = answer_node
            /\ pc' = "after"
            /\ turn' = [turn EXCEPT !.ended = TRUE, !.committed = TRUE]
    /\ UNCHANGED << order, current_node, nextId, is_running, todo_node, framevars,
                    outcome, ret, stream, parsed >>

\* Lines 139-144: the end-of-turn sentinel goes to the callback, the answer
\* node takes the result and both nodes are marked success.
Finish(raises, stops) ==
    /\ pc = "finish"
    /\ Recall(139, TRUE, << >>, stops)
    /\ IF raises
       THEN /\ pc' = "handler"
            /\ turn' = [turn EXCEPT !.failed = TRUE]
            /\ UNCHANGED << nodes, new_node >>
       ELSE /\ nodes' = success_node(success_node(
                           [nodes EXCEPT ![answer_node].content = result],
                           node), answer_node)
            /\ new_node' = answer_node
            /\ pc' = "after"
            /\ turn' = [turn EXCEPT !.ended = TRUE, !.committed = TRUE]
    /\ UNCHANGED << order, current_node, nextId, is_running, todo_node, framevars,
                    outcome, ret, stream, parsed >>

\* Handler marking the to-do node success as the commit does.
Handler_MarkSuccess(raises, stops) ==
    /\ pc = "handler"
    /\ Recall(148, FALSE, result, stops)
    /\ IF raises
       THEN /\ Propagate
            /\ UNCHANGED << nodes, order, new_node >>
       ELSE /\ nodes' = success_node(delete_node(nodes, answer_node), node)
            /\ order' = Remove(order, answer_node)
            /\ new_node' = node
            /\ pc' = "after"
            /\ UNCHANGED << outcome, ret >>
    /\ turn' = [turn EXCEPT !.ended = TRUE]
    /\ UNCHANGED << current_node, nextId, is_running, todo_node, framevars,
                    stream, parsed >>

\* Handler returning should_stop = False whatever parse returned.
Handler_ResetStop(raises, stops) ==
    /\ pc = "handler"
    /\ Recall(148, FALSE, result, stops)
    /\ IF raises
       THEN /\ Propagate
            /\ UNCHANGED << nodes, order, new_node >>
       ELSE /\ nodes' = delete_node(nodes, answer_node)
            /\ order' = Remove(order, answer_node)
            /\ new_node' = node
            /\ pc' = "after"
            /\ UNCHANGED << outcome, ret >>
    /\ turn' = [turn EXCEPT !.ended = TRUE]
    /\ is_stop' = FALSE
    /\ UNCHANGED << current_node, nextId, is_running, todo_node, node,
                    answer_node, result, stream, parsed >>

\* Lines 145-150: recovery.  The partial result goes to the callback, the
\* answer node is deleted and the to-do node is returned.  An exception of
\* the callback here is not caught by anything.
Handler(raises, stops) ==
    /\ pc = "handler"
    /\ Recall(148, FALSE, result, stops)
    /\ IF raises
       THEN /\ Propagate
            /\ UNCHANGED << nodes, order, new_node >>
       ELSE /\ nodes' = delete_node(nodes, answer_node)
            /\ order' = Remove(order, answer_node)
            /\ new_node' = node
            /\ pc' = "after"
            /\ UNCHANGED << outcome, ret >>
    /\ turn' = [turn EXCEPT !.ended = TRUE]
    /\ UNCHANGED << current_node, nextId, is_running, todo_node, framevars,
                    stream, parsed >>

\* AfterTurn that goes on with the loop whatever is_stop says.
AfterTurn_NeverReturn ==
    /\ pc = "after"
    /\ todo_node' = get_todo_node(nodes, order)
    /\ pc' = "sleep"
    /\ runh' = [runh EXCEPT !.doneAfterStop = @ + (IF stop_event THEN 1 ELSE 0)]
    /\ UNCHANGED << memvars, is_running, stop_event, new_node, framevars,
                    outcome, ret, calls, stream, parsed, turn >>

\* AfterTurn with the test of is_stop lost: the node of the turn is returned
\* whatever the turn said.
AfterTurn_AlwaysReturn ==
    /\ pc = "after"
    /\ Return(new_node)
    /\ runh' = [runh EXCEPT !.doneAfterStop = @ + (IF stop_event THEN 1 ELSE 0)]
    /\ UNCHANGED << memvars, is_running, stop_event, todo_node, new_node,
                    framevars, calls, stream, parsed, turn >>

\* Agent.run, lines 64-70: the turn has returned (new_node, is_stop).
AfterTurn ==
    /\ pc = "after"
    /\ IF is_stop
       THEN /\ Return(new_node)
            /\ UNCHANGED todo_node
       ELSE /\ todo_node' = get_todo_node(nodes, order)
            /\ pc' = "sleep"
            /\ UNCHANGED << outcome, ret >>
    /\ runh' = [runh EXCEPT !.doneAfterStop = @ + (IF stop_event THEN 1 ELSE 0)]
    /\ UNCHANGED << memvars, is_running, stop_event, new_node, framevars,
                    calls, stream, parsed, turn >>

\* AfterSleep without the poll of the stop event.
AfterSleep_NoPoll ==
    /\ pc = "sleep"
    /\ IF todo_node = None
       THEN /\ is_running' = FALSE
            /\ Return(None)
       ELSE /\ pc' = "exec"
            /\ UNCHANGED << is_running, outcome, ret >>
    /\ UNCHANGED << memvars, stop_event, todo_node, new_node, framevars,
                    calls, stream, parsed, turn, runh >>

\* Agent.run, lines 71-76 and 63: after the yield of asyncio.sleep(0) the
\* stop event is polled, then the while condition is tested.
AfterSleep ==
    /\ pc = "sleep"
    /\ IF stop_event \/ todo_node = None
       THEN /\ is_running' = FALSE
            /\ Return(None)
       ELSE /\ pc' = "exec"
            /\ UNCHANGED << is_running, outcome, ret >>
    /\ UNCHANGED << memvars, stop_event, todo_node, new_node, framevars,
                    calls, stream, parsed, turn, runh >>

\* Agent.stop, called by another task while run is suspended in sleep(0) or
\* while no run is in progress (during a turn it is called through Recall).
Stop ==
    /\ pc \in {"idle", "sleep"}
    /\ stop_event' = TRUE
    /\ runh' = [runh EXCEPT !.stopCalled = (@ \/ pc = "sleep"),
                            !.everStopped = TRUE]
    /\ UNCHANGED << memvars, is_running, pc, todo_node, new_node, framevars,
                    outcome, ret, calls, stream, parsed, turn >>

Next ==
    \/ /\ \E hasInput \in BOOLEAN, input \in Inputs,
             for_node_id \in {None, ret}, k \in 1..MaxPlanSteps :
               Run(hasInput, input, for_node_id, k)
       /\ UNCHANGED smvars
    \/ /\ \E raises \in BOOLEAN, stops \in BOOLEAN : ExecBegin(raises, stops)
       /\ UNCHANGED smvars
    \/ /\ \E what \in {"token", "none", "exhausted", "error"}, t \in Tokens,
             raises \in BOOLEAN, stops \in BOOLEAN :
               PullToken(what, t, raises, stops)
       /\ UNCHANGED smvars
    \/ /\ \E perr \in BOOLEAN, output \in Outputs, stop \in BOOLEAN,
             raises \in BOOLEAN, stops \in BOOLEAN :
               Dispatch(perr, output, stop, raises, stops)
       /\ UNCHANGED smvars
    \/ /\ \E raises \in BOOLEAN, stops \in BOOLEAN : Finish(raises, stops)
       /\ UNCHANGED smvars
    \/ /\ \E raises \in BOOLEAN, stops \in BOOLEAN : Handler(raises, stops)
       /\ UNCHANGED smvars
    \/ AfterTurn /\ UNCHANGED smvars
    \/ AfterSleep /\ UNCHANGED smvars
    \/ Stop /\ UNCHANGED smvars

Spec == Init /\ [][Next]_vars

\* ----------------------------------------------- SummaryMemory actions

TheStore == [c |-> concepts, d |-> db]

\* The concepts that are shown with non-empty content, as [key, content].
ShownNonEmpty(c) ==
    { [key |-> ShownNodes(c)[k].key, content |-> ShownNodes(c)[k].content] :
        k \in 1..Len(ShownNodes(c)) }

\* The keys of a sequence of keys, as a set.
KeySet(keys) == { keys[k] : k \in 1..Len(keys) }

\* A caller hands a text to instant_parse (_parse_show).
ParseShow(text) ==
    /\ apc = "idle"
    /\ \E r \in { _parse_show(TheStore, text) }, keys \in { get_show_keys(text) } :
           /\ concepts' = r.st.c
           /\ db' = r.st.d
           /\ aret' = [kind |-> "returned", text |-> r.content]
           /\ ah' = [SMNoHist EXCEPT
                       !.adds = ah.adds, !.ntok = ah.ntok, !.op = "show", !.keys = keys,
                       !.unknown = { k \in KeySet(keys) : ~HasKey(concepts, k) },
                       !.reshown = IF ah.op = "hide"
                                   THEN { h \in ah.hid : h.key \in KeySet(keys) }
                                   ELSE {}]
    /\ UNCHANGED << apc, aresult >>

\* A caller hands a text to _parse_hide.
ParseHide(text) ==
    /\ apc = "idle"
    /\ \E r \in { _parse_hide(TheStore, text) }, keys \in { get_hide_keys(text) } :
           /\ concepts' = r.st.c
           /\ db' = r.st.d
           /\ aret' = [kind |-> "returned", text |-> r.content]
           /\ ah' = [SMNoHist EXCEPT
                       !.adds = ah.adds, !.ntok = ah.ntok, !.op = "hide", !.keys = keys,
                       !.unknown = { k \in KeySet(keys) : ~HasKey(concepts, k) },
                       !.hid = { h \in ShownNonEmpty(concepts) :
                                   h.key \in KeySet(keys) }]
    /\ UNCHANGED << apc, aresult >>

\* A caller hands a text to _parse_block.
ParseBlock(text) ==
    /\ apc = "idle"
    /\ \E r \in { _parse_block(TheStore, text) } :
           /\ concepts' = r.st.c
           /\ db' = r.st.d
           /\ aret' = [kind |-> "returned", text |-> r.content]
           /\ ah' = [SMNoHist EXCEPT !.adds = ah.adds, !.ntok = ah.ntok, !.op = "block"]
    /\ UNCHANGED << apc, aresult >>

\* add_content up to its first LLM request (lines 93-108).
AddContent(input, role) ==
    /\ apc = "idle"
    /\ ah.adds < MaxAdds
    /\ IF role \notin { "user", "system" }
       THEN /\ aret' = [kind |-> "raised", text |-> << >>]
            /\ ah' = [SMNoHist EXCEPT !.adds = ah.adds, !.ntok = ah.ntok, !.op = "add"]
            /\ UNCHANGED << apc, aresult >>
       ELSE /\ apc' = "stream"
            /\ aresult' = << >>
            /\ aret' = SMNoRet
            /\ ah' = [SMNoHist EXCEPT
                        !.adds = ah.adds + 1, !.ntok = ah.ntok, !.input = input,
                        !.new_text = concepts[KeyIndex(concepts, RootKey)].content
                                     \o << "N" >> \o input,
                        !.requests = 1, !.op = "add"]
    /\ UNCHANGED << concepts, db >>

\* What add_content returns (line 122).
Returned(c) ==
    [kind |-> "returned",
     text |-> get_show_memory(c) \o << "N" >> \o c[KeyIndex(c, RootKey)].content]

SMToken_Return(what, t, raises) ==
    /\ apc = "stream"
    /\ ah.ntok < MaxSMTokens
    /\ IF what = "error" \/ raises
       THEN /\ apc' = "idle"
            /\ aresult' = << >>
            /\ aret' = [kind |-> "raised", text |-> << >>]
            /\ ah' = [ah EXCEPT !.op = "token"]
            /\ UNCHANGED << concepts, db >>
       ELSE IF what = "none"
       THEN /\ ah' = [ah EXCEPT !.ntok = @ + 1, !.op = "token"]
            /\ UNCHANGED << concepts, db, apc, aresult, aret >>
       ELSE \E ip \in { instant_parse(TheStore, aresult \o t) } :
              IF ip.parsed
              THEN \E pp \in { post_parse(ip.st, ip.content) } :
                     /\ aresult' = << >>
                     /\ concepts' = pp.st.c
                     /\ db' = pp.st.d
                     /\ apc' = "idle"
                     /\ aret' = Returned(pp.st.c)
                     /\ ah' = [ah EXCEPT !.ntok = @ + 1, !.matches = @ + 1,
                                         !.op = "token"]
              ELSE /\ aresult' = aresult \o t
                   /\ ah' = [ah EXCEPT !.ntok = @ + 1, !.op = "token"]
                   /\ UNCHANGED << concepts, db, apc, aret >>

\* One round of the token loop (lines 110-118): the stream gives a token, a
\* None, or raises; the callback may raise.  A show match is followed by
\* post_parse and the next LLM request (line 108).
SMToken(what, t, raises) ==
    /\ apc = "stream"
    /\ ah.ntok < MaxSMTokens
    /\ IF what = "error" \/ raises
       THEN /\ apc' = "idle"
            /\ aresult' = << >>
            /\ aret' = [kind |-> "raised", text |-> << >>]
            /\ ah' = [ah EXCEPT !.op = "token"]
            /\ UNCHANGED << concepts, db >>
       ELSE IF what = "none"
       THEN /\ ah' = [ah EXCEPT !.ntok = @ + 1, !.op = "token"]
            /\ UNCHANGED << concepts, db, apc, aresult, aret >>
       ELSE \E ip \in { instant_parse(TheStore, aresult \o t) } :
              IF ip.parsed
              THEN \E pp \in { post_parse(ip.st, ip.content) } :
                     /\ aresult' = pp.content
                     /\ concepts' = pp.st.c
                     /\ db' = pp.st.d
                     /\ ah' = [ah EXCEPT !.ntok = @ + 1, !.matches = @ + 1,
                                         !.requests = @ + 1, !.op = "token"]
                     /\ UNCHANGED << apc, aret >>
              ELSE /\ aresult' = aresult \o t
                   /\ ah' = [ah EXCEPT !.ntok = @ + 1, !.op = "token"]
                   /\ UNCHANGED << concepts, db, apc, aret >>

\* The stream ends without a match (lines 119-122): post_parse and return.
SMEnd ==
    /\ apc = "stream"
    /\ \E pp \in { post_parse(TheStore, aresult) } :
           /\ aresult' = << >>
           /\ concepts' = pp.st.c
           /\ db' = pp.st.d
           /\ apc' = "idle"
           /\ aret' = Returned(pp.st.c)
           /\ ah' = [ah EXCEPT !.op = "end"]

SMNext ==
    \/ /\ \E text \in SMTexts : ParseShow(text)
       /\ UNCHANGED agentvars
    \/ /\ \E text \in SMTexts : ParseHide(text)
       /\ UNCHANGED agentvars
    \/ /\ \E text \in SMTexts : ParseBlock(text)
       /\ UNCHANGED agentvars
    \/ /\ \E input \in SMInputs, role \in Roles : AddContent(input, role)
       /\ UNCHANGED agentvars
    \/ /\ \E what \in {"token", "none", "error"}, t \in SMTokens, raises \in BOOLEAN :
             SMToken(what, t, raises)
       /\ UNCHANGED agentvars
    \/ SMEnd /\ UNCHANGED agentvars

SpecSM == Init /\ [][SMNext]_vars

\* ================================================================ claims

\* The turn's exception was raised inside the try block and the turn is over.
FailedTurnOver == turn.ended /\ turn.failed

\* C1: after a turn in which an exception was raised in the streaming
\* section, the answer node created for the turn is no longer in the memory
\* tree and the originating node is still pending.
C1_RollbackOnFailure ==
    FailedTurnOver =>
        /\ answer_node \notin DOMAIN nodes
        /\ nodes[node].status = "pending"

\* C2: run never propagates an exception to its caller.
C2_RunNeverRaises == outcome # "raised"

\* C3: a run before or during which stop() was called returns None.
C3_StoppedRunReturnsNone ==
    (outcome = "returned" /\ runh.stopCalled) => ret = None

\* C3, amended: a run before or during which stop() was called returns None
\* unless its last turn returned should_stop = true, and then it returns the
\* id of the node that turn returned.
C3_StoppedRunReturnsNoneUnlessStop ==
    (outcome = "returned" /\ runh.stopCalled) =>
        \/ ret = None
        \/ (is_stop /\ ret = new_node /\ pc = "idle")

\* A run that executed a turn, during which stop() was called, has returned
\* None while a to-do node was left.
C3_Witness ==
    /\ outcome = "returned"
    /\ runh.stopCalled /\ ~runh.stopAtCall
    /\ runh.turns >= 1
    /\ ret = None
    /\ todo_node # None

\* C4: once stop() has been called, at most one turn of the run completes
\* afterwards, and the run starts no turn after it: a turn starts with the
\* stop event set only as the first turn of a run called with the event set.
C4_CancelWithinOneTurn ==
    /\ runh.doneAfterStop <= 1
    /\ (pc = "exec" /\ stop_event) => (runh.turns = 0 /\ runh.stopAtCall)
    /\ (pc \in {"stream", "match", "finish", "handler", "after"} /\ runh.turns > 1)
          => ~runh.stopAtCall

\* The flag was set during the second turn of a run, which then returned None
\* with a to-do node left.
C4_Witness ==
    /\ outcome = "returned" /\ ret = None
    /\ runh.turns = 2 /\ runh.doneAfterStop = 1
    /\ ~runh.stopAtCall
    /\ get_todo_node(nodes, order) # None

\* C5: run returns a node id exactly when a turn has returned should_stop =
\* true: from the return of such a turn it goes straight to returning that
\* turn's node (no further to-do node is executed), and every other return of
\* run gives None.
C5_StopTurnEndsRun ==
    /\ (outcome = "returned" /\ ret # None) =>
          (turn.ended /\ is_stop /\ ret = new_node)
    /\ (turn.ended /\ is_stop /\ pc # "after" /\ outcome # "raised") =>
          (pc = "idle" /\ outcome = "returned" /\ ret = new_node)

\* A turn returned should_stop = true and run returned its answer node while
\* another to-do node was pending.
C5_Witness ==
    /\ outcome = "returned" /\ ret # None
    /\ turn.committed /\ ret = answer_node
    /\ get_todo_node(nodes, order) # None

\* The texts of the callback calls cs made for tokens (source line 128).
RECURSIVE TokenCalls(_)
TokenCalls(cs) ==
    IF cs = << >> THEN << >>
    ELSE IF Head(cs).line = 128 THEN << Head(cs).text >> \o TokenCalls(Tail(cs))
    ELSE TokenCalls(Tail(cs))

\* The number of end-of-turn sentinels among the callback calls cs.
Sentinels(cs) == Cardinality({ k \in 1..Len(cs) : cs[k].none })

\* C6: in a turn at most one output interpreter's parse is invoked; it is the
\* first interpreter of the list whose pattern matches the buffer accumulated
\* at the first token after which any pattern matches, and no token is pulled
\* from the stream after that match.
C6_FirstMatchOnceAndStop ==
    /\ Len(parsed) <= 1
    /\ parsed # << >> =>
         /\ stream # << >>
         /\ \A j \in 1..(Len(stream) - 1) :
               \A i \in 1..Len(output_interpreters) :
                  ~Search(match_template(output_interpreters[i]),
                          Concat(SubSeq(stream, 1, j)))
         /\ \E k \in 1..Len(output_interpreters) :
               /\ parsed[1] = output_interpreters[k]
               /\ Search(match_template(output_interpreters[k]), Concat(stream))
               /\ \A i \in 1..(k - 1) :
                     ~Search(match_template(output_interpreters[i]), Concat(stream))
         /\ turn.atmatch = Len(stream)
         /\ pc \notin {"stream", "match"}

\* The python and the bash pattern both match after the second token and the
\* python interpreter, earlier in the list, parsed.
C6_Witness ==
    /\ parsed = << "python" >>
    /\ Len(stream) = 2
    /\ Search(match_template("bash"), result)

\* C7: in every turn, failed or not, the callback gets the tokens in stream
\* order, each once, and its last call of the turn is the only end-of-turn
\* sentinel.
C7_TokensThenSentinel ==
    turn.ended =>
        /\ TokenCalls(calls) = stream
        /\ calls # << >>
        /\ calls[Len(calls)].none
        /\ Sentinels(calls) = 1

\* C7, amended: in every turn the callback gets the tokens in stream order,
\* each once; a turn that completes without an exception ends with exactly one
\* end-of-turn sentinel as its last callback call; a turn that fails ends with
\* a callback call that carries the accumulated partial result, not the
\* sentinel.
C7_TokensThenSentinelOnSuccess ==
    /\ TokenCalls(calls) = stream
    /\ turn.committed =>
         /\ calls # << >>
         /\ calls[Len(calls)].none
         /\ Sentinels(calls) = 1
    /\ (turn.ended /\ turn.failed) =>
         /\ calls # << >>
         /\ ~calls[Len(calls)].none
         /\ calls[Len(calls)].text = result

\* A turn with two tokens, an interpreter match and no exception is over.
C7_Witness ==
    /\ turn.committed
    /\ Len(stream) = 2
    /\ parsed # << >>
    /\ Len(calls) = 4

\* C8: when an interpreter matched and its parse and the callbacks completed
\* without exception, both the originating node and the answer node are
\* success and the turn returns (answer_node, the stop flag parse returned).
C8_MatchCommits ==
    (pc = "after" /\ turn.committed /\ parsed # << >>) =>
        /\ nodes[node].status = "success"
        /\ nodes[answer_node].status = "success"
        /\ new_node = answer_node
        /\ turn.parseDone
        /\ is_stop = turn.parseRet

\* A turn with a match is over and returns should_stop = true.
C8_Witness ==
    /\ pc = "after" /\ turn.committed
    /\ parsed # << >>
    /\ is_stop

C10_ParseOutputStored ==
    (pc = "after" /\ turn.committed /\ parsed # << >>) =>
        nodes[answer_node].content = turn.parseOut

\* C16: a to-do node whose turn failed is pending and is executed again in
\* the same run; run gives up retrying only when it observes cancellation.
C16_FailedTurnRetried ==
    /\ FailedTurnOver => nodes[node].status = "pending"
    /\ (FailedTurnOver /\ pc = "idle" /\ outcome = "returned") =>
          (ret = None /\ stop_event)

\* C16, amended: a to-do node whose turn failed is pending; when the failed
\* turn returned should_stop = false it is the node run selects next, and it
\* is executed again unless the poll of the stop event ends the run; when the
\* failed turn returned should_stop = true run returns its id instead of
\* retrying.  (No retry counter exists: the loop goes on as long as the turn
\* fails.)
C16_FailedTurnRetriedUnlessStop ==
    /\ FailedTurnOver =>
          (node \in DOMAIN nodes /\ nodes[node].status = "pending")
    /\ (FailedTurnOver /\ pc \in {"sleep", "exec"}) =>
          (~is_stop /\ todo_node = node)
    /\ (FailedTurnOver /\ pc = "exec") => ~stop_event
    /\ (FailedTurnOver /\ pc = "idle" /\ outcome = "returned") =>
          \/ (is_stop /\ ret = node)
          \/ (~is_stop /\ ret = None /\ stop_event)

\* Two attempts on the same node have failed in this run and a third one is
\* about to start.
C16_Witness ==
    /\ pc = "exec"
    /\ FailedTurnOver
    /\ runh.turns = 2
    /\ todo_node = node

\* C17: a failed turn returns the originating node with should_stop equal to
\* the flag a completed parse returned in that turn, false when none did; on
\* true, run returns the id of the originating node, which is still pending.
C17_FailedTurnReturn ==
    /\ (pc = "after" /\ turn.failed) =>
          /\ new_node = node
          /\ is_stop = (turn.parseDone /\ turn.parseRet)
    /\ (pc = "idle" /\ outcome = "returned" /\ FailedTurnOver /\ is_stop) =>
          /\ turn.parseDone /\ turn.parseRet
          /\ ret = node
          /\ nodes[node].status = "pending"
          /\ answer_node \notin DOMAIN nodes

\* parse returned should_stop = true, the callback then raised on its output,
\* and run returned the id of the pending originating node.
C17_Witness ==
    /\ pc = "idle" /\ outcome = "returned"
    /\ FailedTurnOver /\ is_stop
    /\ ret = node
    /\ nodes[node].status = "pending"

\* C19: is_running is true exactly while a run is in progress: true from the
\* start of run, false once run has returned.
C19_IsRunningOnlyDuringRun ==
    /\ pc # "idle" => is_running
    /\ (pc = "idle" /\ outcome = "returned") => ~is_running

\* C20: the stop event, once set, is never cleared, so a run called with it
\* set executes at most one turn.
C20_StopEventSticks ==
    /\ runh.everStopped => stop_event
    /\ runh.stopAtCall => runh.turns <= 1
    /\ (runh.stopAtCall /\ pc = "exec") => runh.turns = 0

\* A run called with the stop event set (its first turn is the turn of answer
\* node 3, after an earlier run had failed on node 1) executed one turn and
\* returned None with the node still to do.
C20_Witness ==
    /\ pc = "idle" /\ outcome = "returned" /\ ret = None
    /\ runh.stopAtCall /\ runh.turns = 1
    /\ node = 1 /\ answer_node = 3
    /\ get_todo_node(nodes, order) # None

\* ------------------------------------------------ SummaryMemory claims

Root == concepts[KeyIndex(concepts, RootKey)]

\* C11: the concept store always holds the key ROOT, and ROOT's show flag is
\* false, whatever keys the directives and titles name.
C11_RootNeverShown == HasKey(concepts, RootKey) /\ ~Root.show

\* C12: after add_content(text, role) returned, ROOT's content contains the
\* text that was passed in.
C12_InputKeptInRoot ==
    (apc = "idle" /\ ah.op = "end" /\ aret.kind = "returned")
        => Contains(Root.content, ah.input)

\* C13: after a show or a hide directive that names a key the store did not
\* hold, the key is a concept with empty content and show = false.
C13_UnknownKeyCreated ==
    (apc = "idle" /\ ah.op \in {"show", "hide"}) =>
        \A k \in ah.unknown :
            /\ HasKey(concepts, k)
            /\ concepts[KeyIndex(concepts, k)].content = << >>
            /\ ~concepts[KeyIndex(concepts, k)].show

\* C13, amended: a hide directive that names a key the store did not hold
\* creates it with empty content and show = false; a show directive that
\* names such a key leaves the key out of the store; neither raises.
C13_UnknownKeyTolerated ==
    /\ (apc = "idle" /\ ah.op = "hide") =>
          /\ aret.kind = "returned"
          /\ \A k \in ah.unknown :
                /\ HasKey(concepts, k)
                /\ concepts[KeyIndex(concepts, k)].content = << >>
                /\ ~concepts[KeyIndex(concepts, k)].show
    /\ (apc = "idle" /\ ah.op = "show") =>
          /\ aret.kind = "returned"
          /\ \A k \in ah.unknown : ~HasKey(concepts, k)

C13_Witness ==
    /\ apc = "idle" /\ ah.op = "hide" /\ << "a" >> \in ah.unknown
    /\ HasKey(concepts, << "a" >>)

\* C14: after a hide directive for a shown concept with non-empty content,
\* get_show_memory() leaves the concept out; after a show directive for the
\* same key that follows, get_show_memory() renders it again, with the content
\* it had before the hide.
C14_HideThenShow ==
    /\ (apc = "idle" /\ ah.op = "hide") =>
          \A h \in ah.hid :
              /\ \A k \in 1..Len(ShownNodes(concepts)) :
                    ShownNodes(concepts)[k].key # h.key
              /\ HasKey(concepts, h.key)
              /\ concepts[KeyIndex(concepts, h.key)].content = h.content
    /\ (apc = "idle" /\ ah.op = "show") =>
          \A h \in ah.reshown :
              /\ \E k \in 1..Len(ShownNodes(concepts)) :
                    /\ ShownNodes(concepts)[k].key = h.key
                    /\ ShownNodes(concepts)[k].content = h.content
              /\ Contains(get_show_memory(concepts),
                          << "L" >> \o h.key \o << "R", "N" >> \o h.content)

C14_Witness ==
    /\ apc = "idle" /\ ah.op = "show"
    /\ [key |-> << "a" >>, content |-> << "x" >>] \in ah.reshown

\* C15: the durable store holds exactly one record per concept key, and each
\* record equals the concept in memory.
C15_DbMatchesConcepts ==
    /\ \A i \in 1..Len(concepts) :
          /\ Cardinality({ j \in 1..Len(db) : db[j].key = concepts[i].key }) = 1
          /\ \E j \in 1..Len(db) : db[j] = concepts[i]
    /\ \A j \in 1..Len(db) : HasKey(concepts, db[j].key)

C15_Witness ==
    /\ apc = "idle" /\ ah.op = "show" /\ << "a" >> \in KeySet(ah.keys)
    /\ HasKey(concepts, << "a" >>)
    /\ concepts[KeyIndex(concepts, << "a" >>)].show
    /\ concepts[KeyIndex(concepts, << "a" >>)].content = << "x" >>
    /\ \E j \in 1..Len(db) : db[j] = concepts[KeyIndex(concepts, << "a" >>)]

\* C18: while add_content runs, the LLM requests it made are the show
\* matches plus one; it returns only when a stream ends without a match, and
\* never at a match.
C18_OneRequestPerMatch ==
    /\ apc = "stream" => ah.requests = ah.matches + 1
    /\ (apc = "idle" /\ ah.op = "end") =>
          (ah.requests = ah.matches + 1 /\ aret.kind = "returned")
    /\ (apc = "idle" /\ ah.op = "token") => aret.kind = "raised"
    /\ ah.matches <= ah.ntok

C18_Witness ==
    apc = "idle" /\ ah.op = "end" /\ ah.matches = 1 /\ ah.requests = 2

====
